---- MODULE Spec2Model ----
(***************************************************************************)
(* Model of Tracking.py: the POST /track-order handler, the Shopify order  *)
(* lookup (get_order_from_shopify) and the carrier status resolver         *)
(* (get_carrier_status).                                                   *)
(*                                                                         *)
(* Python strings are modelled as sequences of one-character strings, so   *)
(* that strip(), lower() and the `in` substring test are computed and not  *)
(* assumed.  Accented characters are written as atoms ("o_acute").  The    *)
(* Python value None is the one-element sequence <<"None">>, which is not  *)
(* a sequence of characters.  Upstream answers (Shopify, DHL, Teiker) are  *)
(* chosen nondeterministically from small sets of well-formed bodies: the  *)
(* keys the code reads with [] are present and the values it calls         *)
(* .lower() on are strings.                                                *)
(***************************************************************************)
EXTENDS Naturals, Sequences, FiniteSets

VARIABLES
    ACCESS_TOKEN,      \* os.getenv("ACCESS_TOKEN"), read once at import
    SHOPIFY_STORE,     \* os.getenv("SHOPIFY_STORE")
    DHL_API_KEY,       \* os.getenv("DHL_API_KEY")
    TEIKER_USER,       \* os.getenv("TEIKER_USER")
    TEIKER_PASS,       \* os.getenv("TEIKER_PASS")
    pc,                \* position of the request being handled
    order_number,      \* data.get("orderNumber")
    email,             \* data.get("email")
    data,              \* the Shopify answer held by get_order_from_shopify
    shopify_order,     \* the value get_order_from_shopify returned
    tracking_number,   \* tracking_info[0].get("number")
    tracking_company,  \* tracking_info[0].get("company")
    carrier_branch,    \* which branch of get_carrier_status ran
    carrier_response,  \* the answer of the carrier API that was called
    carrier_status,    \* the value get_carrier_status returned
    response,          \* HTTP status code and error body of the reply
    response_json,     \* the 200 body
    shopifyCalls,      \* requests.post calls made for this request
    dhlCalls,          \* requests.get calls to DHL made for this request
    teikerCalls        \* requests.get calls to Teiker made for this request

vars == <<ACCESS_TOKEN, SHOPIFY_STORE, DHL_API_KEY, TEIKER_USER, TEIKER_PASS,
          pc, order_number, email, data, shopify_order, tracking_number,
          tracking_company, carrier_branch, carrier_response, carrier_status,
          response, response_json, shopifyCalls, dhlCalls, teikerCalls>>

config == <<ACCESS_TOKEN, SHOPIFY_STORE, DHL_API_KEY, TEIKER_USER, TEIKER_PASS>>

-----------------------------------------------------------------------------
(* Bounds of the model.                                                    *)
MaxEdges == 2      \* candidate orders in one Shopify answer
MaxEvents == 2     \* tracking events in one carrier answer

-----------------------------------------------------------------------------
(* Python values and string methods.                                       *)
None == <<"None">>

\* Python truthiness of an optional string: None and "" are falsy.
Truthy(v) == v # None /\ v # <<>>

UpperCase == <<"A", "B", "C", "D", "E", "F", "G", "H", "I", "J", "K", "L", "M",
               "N", "O", "P", "Q", "R", "S", "T", "U", "V", "W", "X", "Y", "Z",
               "O_acute">>
LowerCase == <<"a", "b", "c", "d", "e", "f", "g", "h", "i", "j", "k", "l", "m",
               "n", "o", "p", "q", "r", "s", "t", "u", "v", "w", "x", "y", "z",
               "o_acute">>

LowerChar(c) ==
    IF \E i \in 1..Len(UpperCase) : UpperCase[i] = c
    THEN LowerCase[CHOOSE i \in 1..Len(UpperCase) : UpperCase[i] = c]
    ELSE c

\* str.lower()
Lower(s) == [i \in 1..Len(s) |-> LowerChar(s[i])]

RECURSIVE LStrip(_)
LStrip(s) == IF s # <<>> /\ Head(s) = " " THEN LStrip(Tail(s)) ELSE s

RECURSIVE RStrip(_)
RStrip(s) ==
    IF s # <<>> /\ s[Len(s)] = " " THEN RStrip(SubSeq(s, 1, Len(s) - 1)) ELSE s

\* str.strip()
Strip(s) == RStrip(LStrip(s))

\* Python's `sub in s` for strings.
Contains(sub, s) ==
    \E i \in 0..Len(s) :
        /\ i + Len(sub) <= Len(s)
        /\ SubSeq(s, i + 1, i + Len(sub)) = sub

-----------------------------------------------------------------------------
(* String literals of the program.                                         *)
S_dhl == <<"d", "h", "l">>
S_transit == <<"t", "r", "a", "n", "s", "i", "t">>
S_in_transit == <<"i", "n", "_", "t", "r", "a", "n", "s", "i", "t">>
S_delivered == <<"d", "e", "l", "i", "v", "e", "r", "e", "d">>
S_unknown == <<"u", "n", "k", "n", "o", "w", "n">>
S_UNKNOWN == <<"U", "N", "K", "N", "O", "W", "N">>
S_en_ruta == <<"e", "n", " ", "r", "u", "t", "a">>
S_en_camino == <<"e", "n", " ", "c", "a", "m", "i", "n", "o">>
S_recoleccion == <<"r", "e", "c", "o", "l", "e", "c", "c", "i", "o", "n">>
S_recoleccion_acc == <<"r", "e", "c", "o", "l", "e", "c", "c", "i",
    "o_acute", "n">>
S_entregado == <<"e", "n", "t", "r", "e", "g", "a", "d", "o">>
D_NoTracking == <<"N", "o", " ", "h", "a", "y", " ", "t", "r", "a", "c", "k",
    "i", "n", "g", " ", "a", "s", "i", "g", "n", "a", "d", "o">>
D_FaltanDHL == <<"F", "a", "l", "t", "a", "n", " ", "c", "r", "e", "d", "e",
    "n", "c", "i", "a", "l", "e", "s", " ", "d", "e", " ", "D", "H", "L">>
D_FaltanTeiker == <<"F", "a", "l", "t", "a", "n", " ", "c", "r", "e", "d",
    "e", "n", "c", "i", "a", "l", "e", "s", " ", "d", "e", " ", "T", "e",
    "i", "k", "e", "r">>
D_NoInfoDHL == <<"N", "o", " ", "s", "e", " ", "e", "n", "c", "o", "n", "t",
    "r", "o_acute", " ", "i", "n", "f", "o", "r", "m", "a", "c", "i",
    "o_acute", "n", " ", "e", "n", " ", "D", "H", "L">>
D_SinDescripcion == <<"S", "i", "n", " ", "d", "e", "s", "c", "r", "i", "p",
    "c", "i", "o_acute", "n">>
D_EntregadoTeiker == <<"E", "n", "t", "r", "e", "g", "a", "d", "o", " ", "(",
    "T", "e", "i", "k", "e", "r", ")">>
D_EnTransitoTeiker == <<"E", "n", " ", "t", "r", "a_acute", "n", "s", "i",
    "t", "o", " ", "(", "T", "e", "i", "k", "e", "r", ")", ":", " ">>
D_EstadoDesconocido == <<"E", "s", "t", "a", "d", "o", " ", "d", "e", "s",
    "c", "o", "n", "o", "c", "i", "d", "o", ":", " ">>
D_ErrorHTTP == <<"E", "r", "r", "o", "r", " ", "H", "T", "T", "P", ":", " ">>
E_Requeridos == <<"N", "u_acute", "m", "e", "r", "o", " ", "d", "e", " ",
    "p", "e", "d", "i", "d", "o", " ", "y", " ", "c", "o", "r", "r", "e",
    "o", " ", "s", "o", "n", " ", "r", "e", "q", "u", "e", "r", "i", "d",
    "o", "s">>
E_NoEncontrado == <<"P", "e", "d", "i", "d", "o", " ", "n", "o", " ", "e",
    "n", "c", "o", "n", "t", "r", "a", "d", "o", " ", "o", " ", "e", "l",
    " ", "e", "m", "a", "i", "l", " ", "n", "o", " ", "c", "o", "i", "n",
    "c", "i", "d", "e">>
E_FaltanShopify == <<"F", "a", "l", "t", "a", "n", " ", "c", "r", "e", "d",
    "e", "n", "c", "i", "a", "l", "e", "s", " ", "d", "e", " ", "S", "h",
    "o", "p", "i", "f", "y">>
E_HTTPErrorPrefix == <<"H", "T", "T", "P", " ", "E", "r", "r", "o", "r", ":",
    " ">>
T_503 == <<"5", "0", "3">>
T_timeout == <<"t", "i", "m", "e", "o", "u", "t">>
T_bad_query == <<"b", "a", "d", " ", "q", "u", "e", "r", "y">>
N_1001 == <<"1", "0", "0", "1">>
M_ab_lower == <<"a", "@", "b", ".", "c", "o", "m">>
M_ab_upper == <<"A", "@", "B", ".", "c", "o", "m">>
M_xy == <<"x", "@", "y", ".", "c", "o", "m">>
K_123 == <<"1", "2", "3">>
C_DHL_Express == <<"D", "H", "L", " ", "E", "x", "p", "r", "e", "s", "s">>
C_dhl_padded == <<" ", "d", "h", "l", " ">>
C_D_H_L == <<"D", "-", "H", "-", "L">>
C_d_h_l == <<"d", " ", "h", " ", "l">>
C_Teiker == <<"T", "e", "i", "k", "e", "r">>
TK_ENTREGADO == <<"E", "N", "T", "R", "E", "G", "A", "D", "O">>
TK_En_Ruta == <<"E", "n", " ", "R", "u", "t", "a">>
TK_RECOLECCION_ACC == <<"R", "E", "C", "O", "L", "E", "C", "C", "I",
    "O_acute", "N">>
TK_HOLD == <<"H", "O", "L", "D">>
TK_Transit == <<"T", "r", "a", "n", "s", "i", "t">>
TK_Delivered == <<"D", "e", "l", "i", "v", "e", "r", "e", "d">>
TK_failure == <<"f", "a", "i", "l", "u", "r", "e">>
DD_OnHold == <<"S", "h", "i", "p", "m", "e", "n", "t", " ", "o", "n", " ",
    "h", "o", "l", "d">>
DD_Arrived == <<"A", "r", "r", "i", "v", "e", "d">>

-----------------------------------------------------------------------------
(* Inputs: the values a request, the Shopify backend and the carriers may  *)
(* supply.                                                                 *)
EnvValues == {None, <<"k">>}
OrderNumbers == {None, <<>>, N_1001}
RequestEmails == {None, <<>>, M_ab_lower, M_xy}
StoredEmails == {M_ab_upper, M_ab_lower, M_xy}

\* The first tracking entry of the first fulfillment: number and company.
TrackingEntries ==
    {[number |-> None, company |-> None],
     [number |-> None, company |-> C_DHL_Express],
     [number |-> <<>>, company |-> C_dhl_padded],
     [number |-> K_123, company |-> None],
     [number |-> K_123, company |-> <<>>],
     [number |-> K_123, company |-> C_DHL_Express],
     [number |-> K_123, company |-> C_dhl_padded],
     [number |-> K_123, company |-> C_D_H_L],
     [number |-> K_123, company |-> C_d_h_l],
     [number |-> K_123, company |-> C_Teiker]}

FulfillmentLists ==
    {<<>>, <<[trackingInfo |-> <<>>]>>}
    \cup {<<[trackingInfo |-> <<t>>]>> : t \in TrackingEntries}

Nodes == [name : {N_1001}, email : StoredEmails, fulfillments : FulfillmentLists]

\* Candidates after the first are drawn from a smaller set of orders.
FollowNodes ==
    [name : {N_1001}, email : StoredEmails,
     fulfillments : {<<>>, <<[trackingInfo |->
                                 <<[number |-> K_123, company |-> C_Teiker]>>]>>}]

EdgesOfLen(n) ==
    IF n = 0 THEN {<<>>}
    ELSE {<<a>> \o t : a \in Nodes, t \in [1..(n - 1) -> FollowNodes]}

EdgeLists == UNION {EdgesOfLen(n) : n \in 0..MaxEdges}

ShopifyResponses ==
    {[kind |-> "http_error", edges |-> <<>>, err |-> T_503],
     [kind |-> "transport_error", edges |-> <<>>, err |-> T_timeout],
     [kind |-> "errors", edges |-> <<>>, err |-> T_bad_query]}
    \cup {[kind |-> "ok", edges |-> e, err |-> <<>>] : e \in EdgeLists}

NoData == [kind |-> "none", edges |-> <<>>, err |-> <<>>]

\* A carrier answer: kind of outcome; found = the body holds a shipment
\* (DHL: shipments non-empty; Teiker: the tracking number is a key); token =
\* the status token or None when the key is absent; desc = DHL's status
\* description or None when absent; events = number of tracking events.
DhlTokens == {None, TK_Transit, S_in_transit, TK_Delivered, TK_failure}
DhlDescs == {None, DD_OnHold}
TeikerTokens ==
    {None, TK_ENTREGADO, TK_En_Ruta, TK_RECOLECCION_ACC, TK_HOLD, S_delivered}

FailedResponses ==
    {[kind |-> "http_error", found |-> FALSE, token |-> None, desc |-> None,
      events |-> 0, err |-> T_503],
     [kind |-> "transport_error", found |-> FALSE, token |-> None,
      desc |-> None, events |-> 0, err |-> T_timeout]}

DhlResponses ==
    FailedResponses
    \cup {[kind |-> "ok", found |-> FALSE, token |-> None, desc |-> None,
           events |-> 0, err |-> <<>>]}
    \cup [kind : {"ok"}, found : {TRUE}, token : DhlTokens, desc : DhlDescs,
          events : 0..MaxEvents, err : {<<>>}]

TeikerResponses ==
    FailedResponses
    \cup {[kind |-> "ok", found |-> FALSE, token |-> None, desc |-> None,
           events |-> 0, err |-> <<>>]}
    \cup [kind : {"ok"}, found : {TRUE}, token : TeikerTokens, desc : {None},
          events : 0..MaxEvents, err : {<<>>}]

NoResponse ==
    [kind |-> "none", found |-> FALSE, token |-> None, desc |-> None,
     events |-> 0, err |-> <<>>]

-----------------------------------------------------------------------------
(* get_order_from_shopify                                                  *)
ResNone == [kind |-> "none"]
ResError(e) == [kind |-> "error", error |-> e]
ResOrder(n) == [kind |-> "order", node |-> n]

\* A comparison that respects letter case.
EmailMatches_CaseSensitive(node, em) == node.email = em

\* node["email"].lower() == email.lower()
EmailMatches(node, em) == Lower(node.email) = Lower(em)

\* for order_edge in orders_edges: ... return node; return None
RECURSIVE ScanOrders(_, _)
ScanOrders(orders_edges, em) ==
    IF orders_edges = <<>> THEN ResNone
    ELSE IF EmailMatches(Head(orders_edges), em)
         THEN ResOrder(Head(orders_edges))
         ELSE ScanOrders(Tail(orders_edges), em)

\* A lookup that reports an email mismatch as an error of its own.
FindOrder_Leaky(orders_edges, em) ==
    IF orders_edges = <<>> THEN ResNone
    ELSE IF ScanOrders(orders_edges, em).kind = "none"
         THEN ResError(E_NoEncontrado)
         ELSE ScanOrders(orders_edges, em)

\* if not orders_edges: return None; else the scan.
FindOrder(orders_edges, em) ==
    IF orders_edges = <<>> THEN ResNone ELSE ScanOrders(orders_edges, em)

\* The value returned once the backend has answered.
ShopifyResult(resp, em) ==
    CASE resp.kind = "http_error" -> ResError(E_HTTPErrorPrefix \o resp.err)
      [] resp.kind = "transport_error" -> ResError(resp.err)
      [] resp.kind = "errors" -> ResError(resp.err)
      [] OTHER -> FindOrder(resp.edges, em)

\* A lookup that tries the POST again after a transport failure.
PostAttempts_Retry(resp) == IF resp.kind = "transport_error" THEN 2 ELSE 1

\* requests.post is called once per lookup, whatever the answer.
PostAttempts(resp) == 1

ShopifyConfigured == Truthy(ACCESS_TOKEN) /\ Truthy(SHOPIFY_STORE)

-----------------------------------------------------------------------------
(* get_carrier_status                                                      *)
NoTrackingStatus ==
    [status |-> "no_tracking", description |-> D_NoTracking, events |-> <<>>]

\* A failure reported as an unknown status.
ErrorStatus_AsUnknown(d) ==
    [status |-> "unknown", description |-> d, events |-> <<>>]

ErrorStatus(d) == [status |-> "error", description |-> d, events |-> <<>>]

\* carrier = tracking_company.strip().lower() if tracking_company else ""
CarrierOf(company) == IF Truthy(company) THEN Lower(Strip(company)) ELSE <<>>

\* if "dhl" in carrier
IsDhl(carrier) == Contains(S_dhl, carrier)

\* A test of the tracking number against None only.
BranchOf_NoneOnly(company, number) ==
    IF number = None THEN "no_tracking"
    ELSE IF IsDhl(CarrierOf(company)) THEN "dhl" ELSE "teiker"

\* The branch of get_carrier_status taken for a tracking entry.
BranchOf(company, number) ==
    IF ~Truthy(number) THEN "no_tracking"
    ELSE IF IsDhl(CarrierOf(company)) THEN "dhl" ELSE "teiker"

Digits == <<"1", "2", "3", "4", "5">>

DhlEvents(n) ==
    [i \in 1..n |-> [date |-> <<"t", Digits[i]>>,
                     location |-> <<"L", Digits[i]>>,
                     description |-> <<"e", Digits[i]>>]]

TeikerEvents(n) ==
    [i \in 1..n |-> [date |-> <<"t", Digits[i]>>,
                     location |-> <<>>,
                     description |-> <<"e", Digits[i]>>]]

DhlTransit == {S_transit, S_in_transit}
TeikerTransit ==
    {S_in_transit, S_en_ruta, S_en_camino, S_recoleccion, S_recoleccion_acc}
TeikerDelivered == {S_delivered, S_entregado}

\* status_info.get("statusCode", "unknown").lower()
DhlStatusCode(resp) == Lower(IF resp.token = None THEN S_unknown ELSE resp.token)

\* status_info.get("description", "Sin descripcion")
DhlStatusDesc(resp) == IF resp.desc = None THEN D_SinDescripcion ELSE resp.desc

\* The description returned for a DHL status code outside the allow-lists.
DhlUnknownDescription(resp) == DhlStatusDesc(resp)

DhlStatus(resp) ==
    CASE resp.kind = "http_error" -> ErrorStatus(D_ErrorHTTP \o resp.err)
      [] resp.kind = "transport_error" -> ErrorStatus(resp.err)
      [] resp.kind = "ok" /\ ~resp.found ->
            [status |-> "unknown", description |-> D_NoInfoDHL, events |-> <<>>]
      [] OTHER ->
            IF DhlStatusCode(resp) \in DhlTransit
            THEN [status |-> "in_transit", description |-> DhlStatusDesc(resp),
                  events |-> DhlEvents(resp.events)]
            ELSE IF DhlStatusCode(resp) = S_delivered
            THEN [status |-> "delivered", description |-> DhlStatusDesc(resp),
                  events |-> DhlEvents(resp.events)]
            ELSE [status |-> "unknown",
                  description |-> DhlUnknownDescription(resp),
                  events |-> DhlEvents(resp.events)]

\* shipment_info.get("Status", "UNKNOWN").lower(); shipment_info is {} when
\* the tracking number is no key of the body.
TeikerStatusToken(resp) ==
    Lower(IF ~resp.found \/ resp.token = None THEN S_UNKNOWN ELSE resp.token)

\* A fixed description that drops the token.
TeikerUnknownDescription_NoToken(resp) == D_EstadoDesconocido

\* The description returned for a Teiker status outside the allow-lists.
TeikerUnknownDescription(resp) == D_EstadoDesconocido \o TeikerStatusToken(resp)

TeikerStatus(resp) ==
    CASE resp.kind = "http_error" -> ErrorStatus(D_ErrorHTTP \o resp.err)
      [] resp.kind = "transport_error" -> ErrorStatus(resp.err)
      [] OTHER ->
            IF TeikerStatusToken(resp) \in TeikerTransit
            THEN [status |-> "in_transit",
                  description |-> D_EnTransitoTeiker \o TeikerStatusToken(resp),
                  events |-> TeikerEvents(resp.events)]
            ELSE IF TeikerStatusToken(resp) \in TeikerDelivered
            THEN [status |-> "delivered", description |-> D_EntregadoTeiker,
                  events |-> TeikerEvents(resp.events)]
            ELSE [status |-> "unknown",
                  description |-> TeikerUnknownDescription(resp),
                  events |-> TeikerEvents(resp.events)]

DhlConfigured == Truthy(DHL_API_KEY)
TeikerConfigured == Truthy(TEIKER_USER) /\ Truthy(TEIKER_PASS)

\* The carrier answers that can follow the branch taken; NoResponse when
\* the function returns without a network call.
CarrierAnswers(branch) ==
    IF branch = "dhl" /\ DhlConfigured THEN DhlResponses
    ELSE IF branch = "teiker" /\ TeikerConfigured THEN TeikerResponses
    ELSE {NoResponse}

\* The value get_carrier_status returns on a branch, given the answer.
CarrierStatusOf(branch, resp) ==
    CASE branch = "no_tracking" -> NoTrackingStatus
      [] branch = "dhl" ->
            IF ~DhlConfigured THEN ErrorStatus(D_FaltanDHL) ELSE DhlStatus(resp)
      [] OTHER ->
            IF ~TeikerConfigured THEN ErrorStatus(D_FaltanTeiker)
            ELSE TeikerStatus(resp)

-----------------------------------------------------------------------------
(* track_order: the progress steps and the replies.                        *)
\* step2_completed = bool(tracking_number and tracking_company)
Step2(number, company) == Truthy(number) /\ Truthy(company)

\* A step 3 that forgets the delivered status.
Step3_TransitOnly(status) == status = "in_transit"

\* step3_completed = status == "in_transit" or status == "delivered"
Step3(status) == status = "in_transit" \/ status = "delivered"

\* step4_completed = status == "delivered"
Step4(status) == status = "delivered"

NoJson == [built |-> FALSE]
NoReply == [code |-> 0, error |-> None]

\* jsonify({"error": "Numero de pedido y correo son requeridos"}), 400
MissingFieldsReply == [code |-> 400, error |-> E_Requeridos]

\* jsonify({"error": "Pedido no encontrado o el email no coincide"}), 404
NotFoundReply == [code |-> 404, error |-> E_NoEncontrado]

\* jsonify({"error": shopify_order["error"]}), 400
LookupErrorReply(order) == [code |-> 400, error |-> order.error]

\* A validation that forgets the email.
FieldsMissing_EmailUnchecked(number, em) == ~Truthy(number)

\* if not order_number or not email
FieldsMissing(number, em) == ~Truthy(number) \/ ~Truthy(em)

\* The first tracking entry of the first fulfillment, or None for both.
FirstTracking(node) ==
    IF node.fulfillments # <<>> /\ node.fulfillments[1].trackingInfo # <<>>
    THEN node.fulfillments[1].trackingInfo[1]
    ELSE [number |-> None, company |-> None]

ResponseJson(node, number, company, cs) ==
    [built |-> TRUE,
     name |-> node.name,
     email |-> node.email,
     trackingNumber |-> number,
     trackingCompany |-> company,
     currentCarrierStatus |-> cs.status,
     carrierDescription |-> cs.description,
     events |-> cs.events,
     progressSteps |-> [step1 |-> TRUE,
                        step2 |-> Step2(number, company),
                        step3 |-> Step3(cs.status),
                        step4 |-> Step4(cs.status)]]

-----------------------------------------------------------------------------
(* The state machine: one request at a time runs validate, lookup, the     *)
(* handler's checks of the lookup result, the carrier resolver, the reply. *)
RequestIdle ==
    /\ pc = "idle"
    /\ order_number = None
    /\ email = None
    /\ data = NoData
    /\ shopify_order = ResNone
    /\ tracking_number = None
    /\ tracking_company = None
    /\ carrier_branch = "none"
    /\ carrier_response = NoResponse
    /\ carrier_status = NoTrackingStatus
    /\ response = NoReply
    /\ response_json = NoJson
    /\ shopifyCalls = 0
    /\ dhlCalls = 0
    /\ teikerCalls = 0

Init ==
    /\ ACCESS_TOKEN \in EnvValues
    /\ SHOPIFY_STORE \in EnvValues
    /\ DHL_API_KEY \in EnvValues
    /\ TEIKER_USER \in EnvValues
    /\ TEIKER_PASS \in EnvValues
    /\ RequestIdle

\* track_order up to the validation of the two fields.
track_order_validate ==
    /\ pc = "idle"
    /\ \E number \in OrderNumbers, em \in RequestEmails :
          /\ order_number' = number
          /\ email' = em
          /\ IF FieldsMissing(number, em)
             THEN response' = MissingFieldsReply /\ pc' = "done"
             ELSE response' = response /\ pc' = "lookup"
    /\ UNCHANGED <<config, data, shopify_order, tracking_number,
                   tracking_company, carrier_branch, carrier_response,
                   carrier_status, response_json, shopifyCalls, dhlCalls,
                   teikerCalls>>

\* get_order_from_shopify(order_number, email): one POST unless the
\* credentials are missing.
get_order_from_shopify ==
    /\ pc = "lookup"
    /\ IF ~ShopifyConfigured
       THEN /\ shopify_order' = ResError(E_FaltanShopify)
            /\ UNCHANGED <<data, shopifyCalls>>
       ELSE \E resp \in ShopifyResponses :
               /\ shopifyCalls' = shopifyCalls + PostAttempts(resp)
               /\ data' = resp
               /\ shopify_order' = ShopifyResult(resp, email)
    /\ pc' = "looked_up"
    /\ UNCHANGED <<config, order_number, email, tracking_number,
                   tracking_company, carrier_branch, carrier_response,
                   carrier_status, response, response_json, dhlCalls,
                   teikerCalls>>

\* track_order after the lookup returned: 404, 400, or the extraction of
\* the first tracking entry.  The Shopify answer stays in the state with a
\* 404 or 400 reply and is dropped when the handler goes on to the carrier.
track_order_after_lookup ==
    /\ pc = "looked_up"
    /\ IF shopify_order.kind = "none"
       THEN /\ response' = NotFoundReply
            /\ pc' = "done"
            /\ UNCHANGED <<tracking_number, tracking_company>>
       ELSE IF shopify_order.kind = "error"
       THEN /\ response' = LookupErrorReply(shopify_order)
            /\ pc' = "done"
            /\ UNCHANGED <<tracking_number, tracking_company>>
       ELSE /\ tracking_number' = FirstTracking(shopify_order.node).number
            /\ tracking_company' = FirstTracking(shopify_order.node).company
            /\ pc' = "resolve"
            /\ UNCHANGED response
    /\ data' = IF shopify_order.kind = "order" THEN NoData ELSE data
    /\ UNCHANGED <<config, order_number, email, shopify_order, carrier_branch,
                   carrier_response, carrier_status, response_json,
                   shopifyCalls, dhlCalls, teikerCalls>>

\* get_carrier_status(tracking_company, tracking_number): at most one GET,
\* to the carrier of the branch taken.
get_carrier_status ==
    /\ pc = "resolve"
    /\ LET branch == BranchOf(tracking_company, tracking_number) IN
          /\ carrier_branch' = branch
          /\ \E resp \in CarrierAnswers(branch) :
                /\ carrier_response' = resp
                /\ carrier_status' = CarrierStatusOf(branch, resp)
          /\ dhlCalls' =
                IF branch = "dhl" /\ DhlConfigured THEN dhlCalls + 1 ELSE dhlCalls
          /\ teikerCalls' =
                IF branch = "teiker" /\ TeikerConfigured
                THEN teikerCalls + 1 ELSE teikerCalls
    /\ pc' = "resolved"
    /\ UNCHANGED <<config, order_number, email, data, shopify_order,
                   tracking_number, tracking_company, response, response_json,
                   shopifyCalls>>

\* track_order from the progress steps to the 200 reply.
track_order_respond ==
    /\ pc = "resolved"
    /\ response_json' = ResponseJson(shopify_order.node, tracking_number,
                                     tracking_company, carrier_status)
    /\ response' = [code |-> 200, error |-> None]
    /\ pc' = "done"
    /\ UNCHANGED <<config, order_number, email, data, shopify_order,
                   tracking_number, tracking_company, carrier_branch,
                   carrier_response, carrier_status, shopifyCalls, dhlCalls,
                   teikerCalls>>

\* The server takes the next request; nothing but the configuration is
\* kept from one request to the next.
next_request ==
    /\ pc = "done"
    /\ pc' = "idle"
    /\ order_number' = None
    /\ email' = None
    /\ data' = NoData
    /\ shopify_order' = ResNone
    /\ tracking_number' = None
    /\ tracking_company' = None
    /\ carrier_branch' = "none"
    /\ carrier_response' = NoResponse
    /\ carrier_status' = NoTrackingStatus
    /\ response' = NoReply
    /\ response_json' = NoJson
    /\ shopifyCalls' = 0
    /\ dhlCalls' = 0
    /\ teikerCalls' = 0
    /\ UNCHANGED config

Next ==
    \/ track_order_validate
    \/ get_order_from_shopify
    \/ track_order_after_lookup
    \/ get_carrier_status
    \/ track_order_respond
    \/ next_request

Spec == Init /\ [][Next]_vars

-----------------------------------------------------------------------------
(* Properties.                                                             *)

Absent(v) == v = None \/ v = <<>>
CarrierCalls == dhlCalls + teikerCalls
Replied == pc = "done"

DropSpacesHyphens(s) == SelectSeq(s, LAMBDA c : c # " " /\ c # "-")
NameHasDhl(company) ==
    /\ Truthy(company)
    /\ Contains(S_dhl, DropSpacesHyphens(Lower(Strip(company))))

\* C2: for every carrier name that contains "dhl" once case, spaces and
\* hyphens are ignored, and every non-empty tracking number, the resolver
\* takes the DHL integration, never the default (Teiker) one.
C2_DhlNameSelectsDhl ==
    (carrier_branch # "none" /\ Truthy(tracking_number)
        /\ NameHasDhl(tracking_company)) =>
        /\ carrier_branch = "dhl"
        /\ teikerCalls = 0

\* C3: for a null or empty tracking number the resolver returns no_tracking
\* with no events, whatever the carrier name and the credentials, and makes
\* no network call.
C3_NoTrackingNoCall ==
    (carrier_branch # "none" /\ Absent(tracking_number)) =>
        /\ carrier_status.status = "no_tracking"
        /\ carrier_status.events = <<>>
        /\ carrier_response = NoResponse
        /\ CarrierCalls = 0

C3_Witness ==
    /\ carrier_branch # "none"
    /\ tracking_number = <<>>
    /\ tracking_company = C_dhl_padded
    /\ DHL_API_KEY # None
    /\ carrier_status.status = "no_tracking"

SameIgnoringCase(a, b) == Lower(a) = Lower(b)
Matching(edges, em) == {i \in 1..Len(edges) : SameIgnoringCase(edges[i].email, em)}
FirstOf(S) == CHOOSE i \in S : \A j \in S : i <= j
LookupAnswered == pc = "looked_up" /\ data.kind = "ok"

OrderAbsent == data.kind = "ok" /\ data.edges = <<>>
EmailMismatch ==
    data.kind = "ok" /\ data.edges # <<>> /\ Matching(data.edges, email) = {}

CredentialMissing ==
    \/ carrier_branch = "dhl" /\ Absent(DHL_API_KEY)
    \/ carrier_branch = "teiker" /\ (Absent(TEIKER_USER) \/ Absent(TEIKER_PASS))
CarrierFailed ==
    \/ CredentialMissing
    \/ carrier_response.kind \in {"http_error", "transport_error"}

AllowList(branch) ==
    IF branch = "dhl" THEN {S_transit, S_in_transit, S_delivered}
    ELSE {S_in_transit, S_en_ruta, S_en_camino, S_recoleccion,
          S_recoleccion_acc, S_delivered, S_entregado}
UnrecognizedToken ==
    /\ carrier_response.kind = "ok"
    /\ carrier_response.found
    /\ carrier_response.token # None
    /\ Lower(carrier_response.token) \notin AllowList(carrier_branch)

C8_Step4ImpliesStep3 ==
    response.code = 200 =>
        /\ response_json.currentCarrierStatus \in
              {"no_tracking", "in_transit", "delivered", "unknown", "error"}
        /\ (response_json.progressSteps.step4 =>
                response_json.progressSteps.step3)
        /\ (response_json.currentCarrierStatus = "delivered" =>
                response_json.progressSteps.step4)

C8_Witness ==
    /\ response.code = 200
    /\ response_json.currentCarrierStatus = "delivered"
    /\ response_json.progressSteps.step4
    /\ response_json.progressSteps.step3

\* C9: within one request the lookup is called at most once, a carrier at
\* most once and only after the lookup returned an order; a 404 or 400
\* reply is never accompanied by a carrier call.
C9_SequentialSingleAttempt ==
    /\ shopifyCalls <= 1
    /\ CarrierCalls <= 1
    /\ (CarrierCalls > 0 => shopifyCalls = 1 /\ shopify_order.kind = "order")
    /\ (response.code \in {400, 404} => CarrierCalls = 0)
    /\ (pc \in {"idle", "lookup"} => shopifyCalls = 0)

C9_Witness ==
    /\ Replied
    /\ shopifyCalls = 1
    /\ dhlCalls = 1
    /\ teikerCalls = 0
    /\ response.code = 200

\* C10: in every 200 reply step3 implies step2, also when the first tracking
\* entry has a tracking number but a null or empty carrier name.
C10_Step3ImpliesStep2 ==
    response.code = 200 =>
        (response_json.progressSteps.step3 => response_json.progressSteps.step2)

====
